---- MODULE Spec2Model ----
(***************************************************************************)
(* Model of the address book assistant of src/main.py: the field           *)
(* validators (Phone, Birthday), Record, AddressBook with its              *)
(* upcoming-birthdays query, the command handlers wrapped by input_error   *)
(* and the control loop of main().                                         *)
(*                                                                         *)
(* Every string the program handles (a token of the input line, a name, a  *)
(* phone, a stored birthday) is modelled as a sequence of one-character    *)
(* strings, so that len(), str.isdigit(), strptime and strftime are        *)
(* computed character by character.  Fixed message texts are TLA+ strings. *)
(***************************************************************************)
EXTENDS Integers, Sequences, FiniteSets, TLC

VARIABLES
    pc,       \* position of main(): "reading", "terminated" or "crashed"
    today,    \* the value date.today() returns, [year, month, day]
    data,     \* AddressBook.data: the entries <<[key, record]>> in insertion order
    file,     \* addressbook.pkl: [exists, content]
    op,       \* the command (or Record/AddressBook method) executed last
    output    \* what it returned or displayed: [msg, data]

vars == <<pc, today, data, file, op, output>>

(***************************************************************************)
(* Characters and strings                                                  *)
(***************************************************************************)
DigitChars == <<"0", "1", "2", "3", "4", "5", "6", "7", "8", "9">>

IsDigitChar(c) == \E i \in 1..10 : DigitChars[i] = c

DigitVal(c) == (CHOOSE i \in 1..10 : DigitChars[i] = c) - 1

\* str.isdigit(): non-empty and every character a digit
isdigit(s) == Len(s) > 0 /\ \A i \in 1..Len(s) : IsDigitChar(s[i])

\* int(s) of a digit string
RECURSIVE ToInt(_)
ToInt(s) ==
    IF Len(s) = 0 THEN 0
    ELSE ToInt(SubSeq(s, 1, Len(s) - 1)) * 10 + DigitVal(s[Len(s)])

RECURSIVE Pow10(_)
Pow10(k) == IF k = 0 THEN 1 ELSE 10 * Pow10(k - 1)

\* n rendered zero-padded on w digits
ZeroPad(n, w) == [i \in 1..w |-> DigitChars[((n \div Pow10(w - i)) % 10) + 1]]

\* str.lower() on the letters the command keywords use
LowerChar(c) ==
    CASE c = "A" -> "a"
      [] c = "D" -> "d"
      [] c = "E" -> "e"
      [] c = "X" -> "x"
      [] c = "I" -> "i"
      [] c = "T" -> "t"
      [] OTHER -> c

lower(s) == [i \in 1..Len(s) |-> LowerChar(s[i])]

(***************************************************************************)
(* The proleptic Gregorian calendar of datetime.date                       *)
(***************************************************************************)
IsLeap(y) == (y % 4 = 0) /\ ((y % 100 # 0) \/ (y % 400 = 0))

DaysInMonth(y, m) ==
    IF m = 2 THEN (IF IsLeap(y) THEN 29 ELSE 28)
    ELSE IF m \in {4, 6, 9, 11} THEN 30 ELSE 31

RECURSIVE DaysBeforeMonth(_, _)
DaysBeforeMonth(y, m) ==
    IF m = 1 THEN 0 ELSE DaysBeforeMonth(y, m - 1) + DaysInMonth(y, m - 1)

DaysBeforeYear(y) ==
    (y - 1) * 365 + ((y - 1) \div 4) - ((y - 1) \div 100) + ((y - 1) \div 400)

\* date.toordinal(): 01.01.0001 is day 1
toordinal(d) == DaysBeforeYear(d.year) + DaysBeforeMonth(d.year, d.month) + d.day

\* date.weekday(): Monday is 0, Sunday is 6
weekday(d) == (toordinal(d) + 6) % 7

MkDate(y, m, d) == [year |-> y, month |-> m, day |-> d]

\* date + timedelta(days = n), for n small enough to cross one month end at most
RECURSIVE plus_days(_, _)
plus_days(d, n) ==
    IF n = 0 THEN d
    ELSE IF d.day < DaysInMonth(d.year, d.month)
         THEN plus_days(MkDate(d.year, d.month, d.day + 1), n - 1)
    ELSE IF d.month < 12
         THEN plus_days(MkDate(d.year, d.month + 1, 1), n - 1)
    ELSE plus_days(MkDate(d.year + 1, 1, 1), n - 1)

\* date.replace(year = y): ValueError when the day does not exist in year y
replace_year(d, y) ==
    IF d.day <= DaysInMonth(y, d.month)
    THEN [ok |-> TRUE, date |-> MkDate(y, d.month, d.day)]
    ELSE [ok |-> FALSE, date |-> d]

(***************************************************************************)
(* strptime(value, "%d.%m.%Y") and strftime("%d.%m.%Y")                    *)
(***************************************************************************)
DotPositions(s) == {i \in 1..Len(s) : s[i] = "."}

SetMin(S) == CHOOSE x \in S : \A y \in S : x <= y
SetMax(S) == CHOOSE x \in S : \A y \in S : x >= y

\* %d and %m take one or two digits, never the value 0; %Y takes four digits
FieldOk(f, hi) == isdigit(f) /\ Len(f) \in {1, 2} /\ ToInt(f) \in 1..hi
YearOk(f) == isdigit(f) /\ Len(f) = 4

strptime(value) ==
    LET dots == DotPositions(value) IN
    IF Cardinality(dots) # 2
    THEN [ok |-> FALSE, err |-> "format", date |-> MkDate(0, 0, 0)]
    ELSE
      LET p1 == SetMin(dots)
          p2 == SetMax(dots)
          fd == SubSeq(value, 1, p1 - 1)
          fm == SubSeq(value, p1 + 1, p2 - 1)
          fy == SubSeq(value, p2 + 1, Len(value))
      IN IF ~(FieldOk(fd, 31) /\ FieldOk(fm, 12) /\ YearOk(fy))
         THEN [ok |-> FALSE, err |-> "format", date |-> MkDate(0, 0, 0)]
         ELSE IF ToInt(fy) < 1 \/ ToInt(fd) > DaysInMonth(ToInt(fy), ToInt(fm))
         THEN [ok |-> FALSE, err |-> "range", date |-> MkDate(0, 0, 0)]
         ELSE [ok |-> TRUE, err |-> "none",
               date |-> MkDate(ToInt(fy), ToInt(fm), ToInt(fd))]

\* the decimal digits of n >= 1, without padding
RECURSIVE Decimal(_)
Decimal(n) ==
    IF n < 10 THEN <<DigitChars[n + 1]>>
    ELSE Append(Decimal(n \div 10), DigitChars[(n % 10) + 1])

\* %d and %m are zero-padded on two digits; %Y is the year's decimal digits
\* (four of them for the years 1000..9999, the only ones the inputs below use)
strftime(d) ==
    ZeroPad(d.day, 2) \o <<".">> \o ZeroPad(d.month, 2) \o <<".">> \o Decimal(d.year)

(***************************************************************************)
(* Field validators                                                        *)
(***************************************************************************)
None == <<>>

MsgPhoneInvalid == "The phone number must contain 10 digits"
MsgDateFormat ==
    "Invalid date: time data does not match format '%d.%m.%Y'. Use DD.MM.YYYY"
MsgDateRange == "Invalid date: day is out of range for month. Use DD.MM.YYYY"
MsgDateFuture ==
    "Invalid date: The date of birth cannot be greater than the current one.. Use DD.MM.YYYY"

\* Phone.__init__ without the isdigit() test
Phone_LengthOnly(value) ==
    IF Len(value) # 10
    THEN [ok |-> FALSE, value |-> value, text |-> MsgPhoneInvalid]
    ELSE [ok |-> TRUE, value |-> value, text |-> ""]

\* Phone.__init__: ValueError unless value is 10 characters, all digits
Phone(value) ==
    IF Len(value) # 10 \/ ~isdigit(value)
    THEN [ok |-> FALSE, value |-> value, text |-> MsgPhoneInvalid]
    ELSE [ok |-> TRUE, value |-> value, text |-> ""]

\* Birthday.__init__ on a day when date.today() is now: every ValueError from
\* strptime or from the future-date test is re-raised as "Invalid date: ..."
Birthday(value, now) ==
    LET parsed == strptime(value) IN
    IF ~parsed.ok
    THEN [ok |-> FALSE, value |-> None,
          text |-> IF parsed.err = "format" THEN MsgDateFormat ELSE MsgDateRange]
    ELSE IF toordinal(parsed.date) > toordinal(now)
    THEN [ok |-> FALSE, value |-> None, text |-> MsgDateFuture]
    ELSE [ok |-> TRUE, value |-> strftime(parsed.date), text |-> ""]

(***************************************************************************)
(* Record                                                                  *)
(***************************************************************************)
\* Record.__init__
Record(name) == [name |-> name, phones |-> <<>>, birthday |-> None]

\* Record.add_phone: [exc, text, record]
add_phone(record, phone) ==
    LET p == Phone(phone) IN
    IF p.ok
    THEN [exc |-> "none", text |-> "",
          record |-> [record EXCEPT !.phones = Append(@, p.value)]]
    ELSE [exc |-> "ValueError", text |-> p.text, record |-> record]

RemoveAt(s, i) == SubSeq(s, 1, i - 1) \o SubSeq(s, i + 1, Len(s))

\* The loop of Record.remove_phone: the list iterator stands at index i (1-based)
\* and moves on by one after every element, also after one that was removed.
\* list.remove(p) removes p itself: Phone defines no __eq__, so only the
\* object at index i compares equal to p.
RECURSIVE remove_phone_loop(_, _, _)
remove_phone_loop(phones, i, phone) ==
    IF i > Len(phones) THEN phones
    ELSE IF phones[i] = phone
         THEN remove_phone_loop(RemoveAt(phones, i), i + 1, phone)
         ELSE remove_phone_loop(phones, i + 1, phone)

\* Record.remove_phone
remove_phone(record, phone) ==
    [record EXCEPT !.phones = remove_phone_loop(@, 1, phone)]

\* index of the first phone whose value is old_phone, 0 when there is none
FirstIndex(phones, value) ==
    IF \E i \in 1..Len(phones) : phones[i] = value
    THEN SetMin({i \in 1..Len(phones) : phones[i] = value})
    ELSE 0

MsgPhoneNotFound == "Phone {old_phone} not found"

\* Record.edit_phone constructing Phone(new_phone) only after the loop assigned
\* new_phone to the first match
edit_phone_AssignFirst(record, old_phone, new_phone) ==
    LET new_phone_obj == Phone(new_phone)
        i == FirstIndex(record.phones, old_phone)
        assigned == IF i # 0 THEN [record EXCEPT !.phones[i] = new_phone] ELSE record
    IN IF ~new_phone_obj.ok
       THEN [exc |-> "ValueError", text |-> new_phone_obj.text, record |-> assigned]
       ELSE IF i # 0
       THEN [exc |-> "none", text |-> "", record |-> assigned]
       ELSE [exc |-> "ValueError", text |-> MsgPhoneNotFound, record |-> record]

\* Record.edit_phone: [exc, text, record]
edit_phone(record, old_phone, new_phone) ==
    LET new_phone_obj == Phone(new_phone)
        i == FirstIndex(record.phones, old_phone)
    IN IF ~new_phone_obj.ok
       THEN [exc |-> "ValueError", text |-> new_phone_obj.text, record |-> record]
       ELSE IF i # 0
       THEN [exc |-> "none", text |-> "",
             record |-> [record EXCEPT !.phones[i] = new_phone_obj.value]]
       ELSE [exc |-> "ValueError", text |-> MsgPhoneNotFound, record |-> record]

\* Record.add_birthday: [exc, text, record]
add_birthday(record, birthday, now) ==
    LET b == Birthday(birthday, now) IN
    IF b.ok
    THEN [exc |-> "none", text |-> "", record |-> [record EXCEPT !.birthday = b.value]]
    ELSE [exc |-> "ValueError", text |-> b.text, record |-> record]

\* Record.__str__, as the sequence of its parts
record_str(record) ==
    <<record.name>> \o record.phones
        \o (IF record.birthday # None THEN <<record.birthday>> ELSE <<>>)

(***************************************************************************)
(* AddressBook                                                             *)
(***************************************************************************)
\* position of the key name in the dict, 0 when it is absent
KeyIndex(book, name) ==
    IF \E i \in 1..Len(book) : book[i].key = name
    THEN CHOOSE i \in 1..Len(book) : book[i].key = name
    ELSE 0

\* AddressBook.add_record: self.data[record.name.value] = record
add_record(book, record) ==
    LET i == KeyIndex(book, record.name) IN
    IF i = 0 THEN Append(book, [key |-> record.name, record |-> record])
    ELSE [book EXCEPT ![i] = [key |-> record.name, record |-> record]]

\* AddressBook.find: the position of the record in the book, 0 for None
find(book, name) == KeyIndex(book, name)

\* AddressBook.delete
delete(book, name) ==
    LET i == KeyIndex(book, name) IN
    IF i # 0 THEN RemoveAt(book, i) ELSE book

\* AddressBook.find_next_weekday
find_next_weekday(start_date, wd) ==
    LET days_ahead == wd - weekday(start_date) IN
    plus_days(start_date, IF days_ahead <= 0 THEN days_ahead + 7 ELSE days_ahead)

\* AddressBook.adjust_for_weekend testing weekday() > 5: a Saturday stays
adjust_for_weekend_SundayOnly(birthday) ==
    IF weekday(birthday) > 5 THEN find_next_weekday(birthday, 0) ELSE birthday

\* AddressBook.adjust_for_weekend
adjust_for_weekend(birthday) ==
    IF weekday(birthday) >= 5 THEN find_next_weekday(birthday, 0) ELSE birthday

\* AddressBook.date_to_string
date_to_string(d) == strftime(d)

TextTimeData == "time data does not match format '%d.%m.%Y'"
TextDayRange == "day is out of range for month"

\* One pass of the loop body of get_upcoming_birthdays for one record:
\* [exc, entries], entries being <<>> or the one entry of the record
upcoming_of(record, now, days) ==
    IF record.birthday = None THEN [exc |-> "none", text |-> "", entries |-> <<>>]
    ELSE
      LET parsed == strptime(record.birthday) IN
      IF ~parsed.ok THEN [exc |-> "ValueError", text |-> TextTimeData, entries |-> <<>>]
      ELSE
        LET this == replace_year(parsed.date, now.year) IN
        IF ~this.ok THEN [exc |-> "ValueError", text |-> TextDayRange, entries |-> <<>>]
        ELSE
          LET next == IF toordinal(this.date) < toordinal(now)
                      THEN replace_year(this.date, now.year + 1)
                      ELSE this
          IN IF ~next.ok
             THEN [exc |-> "ValueError", text |-> TextDayRange, entries |-> <<>>]
             ELSE
               LET delta == toordinal(next.date) - toordinal(now) IN
               IF 0 <= delta /\ delta <= days
               THEN [exc |-> "none", text |-> "",
                     entries |-> <<[name |-> record.name,
                                    congratulation_date |->
                                        date_to_string(adjust_for_weekend(next.date))]>>]
               ELSE [exc |-> "none", text |-> "", entries |-> <<>>]

\* AddressBook.get_upcoming_birthdays over the records from position i on,
\* acc being upcoming_birthdays so far: [exc, entries]
RECURSIVE upcoming_loop(_, _, _, _, _)
upcoming_loop(book, i, now, days, acc) ==
    IF i > Len(book) THEN [exc |-> "none", text |-> "", entries |-> acc]
    ELSE LET r == upcoming_of(book[i].record, now, days) IN
         IF r.exc # "none" THEN [exc |-> r.exc, text |-> r.text, entries |-> <<>>]
         ELSE upcoming_loop(book, i + 1, now, days, acc \o r.entries)

get_upcoming_birthdays(book, now, days) == upcoming_loop(book, 1, now, days, <<>>)

\* AddressBook.__str__, as the sequence of the parts of its records
RECURSIVE book_str(_)
book_str(book) ==
    IF Len(book) = 0 THEN <<>>
    ELSE record_str(book[1].record) \o book_str(Tail(book))

(***************************************************************************)
(* Command handlers.  A handler yields [exc, text, detail, book]: the      *)
(* exception it raises ("none" when it returns), the text it returns or    *)
(* the exception carries, the values formatted into that text, and the     *)
(* book as the handler leaves it.                                          *)
(***************************************************************************)
MsgAddArgs == "Please provide both a name and a phone number."
MsgChangeArgs == "Please provide your name, old and new phone numbers."
MsgBirthdayArgs == "Please provide both a name and birthday date."
MsgTooManyValues == "too many values to unpack"
MsgContactNotFound == "Contact not found"
MsgNotEnough == "Not enough argument for the command"
MsgAdded == "Contact added."
MsgUpdated == "Contact updated."
MsgPhoneUpdated == "Contact phone updated."
MsgBirthdayAdded == "Birthday added."
MsgBirthdayNotFound == "Birthday not found"
MsgPhones == "{name}: {phones}"
MsgBirthday == "{name}'s birthday: {birthday}"
MsgBirthdays == "{name}: {congratulation_date}"
MsgEmptyBook == "AddressBook is empty"
MsgBook == "{records}"
MsgInvalid == "Invalid command."
MsgHello == "How can I help you?"
MsgBye == "Good bye!"
MsgWelcome == "Welcome to the assistant bot!"
MsgUnpackLine == "ValueError: not enough values to unpack"

Return(text, detail, book) ==
    [exc |-> "none", text |-> text, detail |-> detail, book |-> book]

Raise(exc, text, detail, book) ==
    [exc |-> exc, text |-> text, detail |-> detail, book |-> book]

\* the book with the record at position i replaced: the handlers change the
\* record that find returned, which is the object the book holds, so the book
\* shows what a Record method did also when the method raises
WithRecord(book, i, record) == [book EXCEPT ![i].record = record]

\* input_error with the messages of KeyError and IndexError exchanged
input_error_Swapped(r) ==
    CASE r.exc = "none" -> [msg |-> r.text, data |-> r.detail]
      [] r.exc = "ValueError" -> [msg |-> r.text, data |-> r.detail]
      [] r.exc = "KeyError" -> [msg |-> MsgNotEnough, data |-> <<>>]
      [] r.exc = "IndexError" -> [msg |-> MsgContactNotFound, data |-> <<>>]

\* input_error: what the wrapped handler returns, or the message of its exception
input_error(r) ==
    CASE r.exc = "none" -> [msg |-> r.text, data |-> r.detail]
      [] r.exc = "ValueError" -> [msg |-> r.text, data |-> r.detail]
      [] r.exc = "KeyError" -> [msg |-> MsgContactNotFound, data |-> <<>>]
      [] r.exc = "IndexError" -> [msg |-> MsgNotEnough, data |-> <<>>]

\* add_contact creating and storing a new Record also for a name that is present
add_contact_AlwaysNew(args, book) ==
    IF Len(args) < 2 THEN Raise("ValueError", MsgAddArgs, <<>>, book)
    ELSE
      LET name == args[1]
          phone == args[2]
          found == find(book, name)
          book1 == add_record(book, Record(name))
          message == IF found = 0 THEN MsgAdded ELSE MsgUpdated
          i == find(book1, name)
          r == add_phone(book1[i].record, phone)
      IN IF r.exc = "none"
         THEN Return(message, <<>>, WithRecord(book1, i, r.record))
         ELSE Raise(r.exc, r.text, <<>>, WithRecord(book1, i, r.record))

\* add_contact
add_contact(args, book) ==
    IF Len(args) < 2 THEN Raise("ValueError", MsgAddArgs, <<>>, book)
    ELSE
      LET name == args[1]
          phone == args[2]
          found == find(book, name)
          book1 == IF found = 0 THEN add_record(book, Record(name)) ELSE book
          message == IF found = 0 THEN MsgAdded ELSE MsgUpdated
          i == find(book1, name)
          r == add_phone(book1[i].record, phone)
      IN IF r.exc = "none"
         THEN Return(message, <<>>, WithRecord(book1, i, r.record))
         ELSE Raise(r.exc, r.text, <<>>, WithRecord(book1, i, r.record))

\* change_contact
change_contact(args, book) ==
    IF Len(args) < 3 THEN Raise("ValueError", MsgChangeArgs, <<>>, book)
    ELSE IF Len(args) > 3 THEN Raise("ValueError", MsgTooManyValues, <<>>, book)
    ELSE
      LET name == args[1]
          old_phone == args[2]
          new_phone == args[3]
          i == find(book, name)
      IN IF i = 0 THEN Raise("KeyError", "", <<>>, book)
         ELSE LET r == edit_phone(book[i].record, old_phone, new_phone) IN
              IF r.exc = "none"
              THEN Return(MsgPhoneUpdated, <<>>, WithRecord(book, i, r.record))
              ELSE Raise(r.exc, r.text,
                         IF r.text = MsgPhoneNotFound THEN <<old_phone>> ELSE <<>>,
                         WithRecord(book, i, r.record))

\* show_phone
show_phone(args, book) ==
    IF Len(args) = 0 THEN Raise("IndexError", "", <<>>, book)
    ELSE
      LET name == args[1]
          i == find(book, name)
      IN IF i # 0
         THEN Return(MsgPhones, <<name>> \o book[i].record.phones, book)
         ELSE Return(MsgContactNotFound, <<>>, book)

\* show_all
show_all(book) ==
    IF Len(book) = 0 THEN [msg |-> MsgEmptyBook, data |-> <<>>]
    ELSE [msg |-> MsgBook, data |-> book_str(book)]

\* add_birthday (the handler)
add_birthday_cmd(args, book, now) ==
    IF Len(args) < 2 THEN Raise("ValueError", MsgBirthdayArgs, <<>>, book)
    ELSE IF Len(args) > 2 THEN Raise("ValueError", MsgTooManyValues, <<>>, book)
    ELSE
      LET name == args[1]
          birthday == args[2]
          i == find(book, name)
      IN IF i = 0 THEN Raise("KeyError", "", <<>>, book)
         ELSE LET r == add_birthday(book[i].record, birthday, now) IN
              IF r.exc = "none"
              THEN Return(MsgBirthdayAdded, <<>>, WithRecord(book, i, r.record))
              ELSE Raise(r.exc, r.text, <<>>, WithRecord(book, i, r.record))

\* show_birthday
show_birthday(args, book) ==
    IF Len(args) = 0 THEN Raise("IndexError", "", <<>>, book)
    ELSE
      LET name == args[1]
          i == find(book, name)
      IN IF i # 0 /\ book[i].record.birthday # None
         THEN Return(MsgBirthday, <<name, book[i].record.birthday>>, book)
         ELSE Return(MsgBirthdayNotFound, <<>>, book)

\* the entries as the flat sequence name, date, name, date, ...
RECURSIVE entries_str(_)
entries_str(entries) ==
    IF Len(entries) = 0 THEN <<>>
    ELSE <<entries[1].name, entries[1].congratulation_date>> \o entries_str(Tail(entries))

DefaultDays == 7

\* birthdays
birthdays(book, now) ==
    LET r == get_upcoming_birthdays(book, now, DefaultDays) IN
    IF r.exc = "none" THEN Return(MsgBirthdays, entries_str(r.entries), book)
    ELSE Raise(r.exc, r.text, <<>>, book)

\* parse_input on the tokens user_input.split() gives: unpacking no token
\* into cmd, *args raises ValueError
parse_input(tokens) ==
    IF Len(tokens) = 0 THEN [ok |-> FALSE, cmd |-> <<>>, args |-> <<>>]
    ELSE [ok |-> TRUE, cmd |-> lower(tokens[1]), args |-> Tail(tokens)]

(***************************************************************************)
(* Inputs                                                                  *)
(***************************************************************************)
MaxPhones == 2

Ann == <<"A", "n", "n">>
Bob == <<"B", "o", "b">>

P1 == <<"0", "5", "0", "1", "2", "3", "4", "5", "6", "7">>
P2 == <<"0", "9", "7", "7", "6", "5", "4", "3", "2", "1">>
PShort == <<"0", "5", "0", "1", "2", "3", "4", "5", "6">>
PAlpha == <<"0", "5", "0", "1", "2", "x", "4", "5", "6", "7">>

BSat == <<"1", "5", ".", "0", "6", ".", "1", "9", "8", "5">>
BUnpadded == <<"1", "5", ".", "6", ".", "1", "9", "8", "5">>
BLeap == <<"2", "9", ".", "0", "2", ".", "2", "0", "2", "4">>
BFuture == <<"0", "1", ".", "0", "1", ".", "2", "0", "3", "0">>
BBadDay == <<"3", "0", ".", "0", "2", ".", "2", "0", "0", "0">>
BIso == <<"1", "9", "8", "5", "-", "0", "6", "-", "1", "5">>

KwAdd == <<"a", "d", "d">>
KwAddUpper == <<"A", "D", "D">>
KwChange == <<"c", "h", "a", "n", "g", "e">>
KwPhone == <<"p", "h", "o", "n", "e">>
KwAll == <<"a", "l", "l">>
KwAddBirthday == <<"a", "d", "d", "-", "b", "i", "r", "t", "h", "d", "a", "y">>
KwShowBirthday == <<"s", "h", "o", "w", "-", "b", "i", "r", "t", "h", "d", "a", "y">>
KwBirthdays == <<"b", "i", "r", "t", "h", "d", "a", "y", "s">>
KwHello == <<"h", "e", "l", "l", "o">>
KwClose == <<"c", "l", "o", "s", "e">>
KwExit == <<"e", "x", "i", "t">>
KwExitUpper == <<"E", "X", "I", "T">>
KwHelp == <<"h", "e", "l", "p">>

\* the days on which the program is observed: Thursday 29.02.2024,
\* Monday 10.06.2024 and Tuesday 10.06.2025
TodayValues == {MkDate(2024, 2, 29), MkDate(2024, 6, 10), MkDate(2025, 6, 10)}

WindowValues == {0, 5, DefaultDays}

AddLines ==
    {<<KwAdd>>, <<KwAdd, Ann>>, <<KwAdd, Ann, P1, P2>>, <<KwAddUpper, Ann, P1>>,
     <<KwAdd, Bob, P1>>, <<KwAdd, Bob, PShort>>}
      \cup {<<KwAdd, Ann, p>> : p \in {P1, P2, PShort, PAlpha}}

ChangeLines ==
    {<<KwChange>>, <<KwChange, Ann, P1>>, <<KwChange, Ann, P1, P2, P1>>,
     <<KwChange, Bob, P2, P1>>, <<KwChange, Bob, P1, PShort>>}
      \cup {<<KwChange, Ann, old, new>> : old \in {P1, P2}, new \in {P1, P2, PShort}}

PhoneLines == {<<KwPhone>>, <<KwPhone, Ann>>, <<KwPhone, Bob>>}

AddBirthdayLines ==
    {<<KwAddBirthday>>, <<KwAddBirthday, Ann>>, <<KwAddBirthday, Ann, BSat, BSat>>,
     <<KwAddBirthday, Bob, BSat>>, <<KwAddBirthday, Bob, BIso>>}
      \cup {<<KwAddBirthday, Ann, b>> :
                b \in {BSat, BUnpadded, BLeap, BFuture, BBadDay, BIso}}

ShowBirthdayLines == {<<KwShowBirthday>>, <<KwShowBirthday, Ann>>, <<KwShowBirthday, Bob>>}

OtherLines ==
    {<<>>, <<KwAll>>, <<KwBirthdays>>, <<KwHello>>, <<KwClose>>, <<KwExit>>,
     <<KwExitUpper>>, <<KwHelp>>, <<KwHelp, Ann>>}

\* the lines typed at the prompt, as the token lists user_input.split() gives
Lines ==
    AddLines \cup ChangeLines \cup PhoneLines \cup AddBirthdayLines
        \cup ShowBirthdayLines \cup OtherLines

(***************************************************************************)
(* The control loop of main()                                              *)
(***************************************************************************)
NoOutput == [msg |-> "", data |-> <<>>]

WithinBounds(book) ==
    \A i \in 1..Len(book) : Len(book[i].record.phones) <= MaxPhones

\* main() up to the first prompt: load_data() finds no file and gives an empty
\* AddressBook, and the welcome message is displayed
Init ==
    /\ pc = "reading"
    /\ today \in TodayValues
    /\ data = <<>>
    /\ file = [exists |-> FALSE, content |-> <<>>]
    /\ op = "load_data"
    /\ output = [msg |-> MsgWelcome, data |-> <<>>]

\* the branch of main() for one of cmds is taken, p being what parse_input gave
Dispatch(p, cmds) ==
    /\ pc = "reading"
    /\ p.ok
    /\ p.cmd \in cmds

\* view.display_message(out) after a handler left the book as book
Display(name, out, book) ==
    /\ pc' = "reading"
    /\ data' = book
    /\ op' = name
    /\ output' = out
    /\ UNCHANGED <<today, file>>

\* parse_input raises on a line without a token and nothing in main() catches it
MainParseError(p) ==
    /\ pc = "reading"
    /\ ~p.ok
    /\ pc' = "crashed"
    /\ op' = "parse_input"
    /\ output' = [msg |-> MsgUnpackLine, data |-> <<>>]
    /\ UNCHANGED <<today, data, file>>

\* close, exit: save_data, "Good bye!", break
MainClose(p) ==
    /\ Dispatch(p, {KwClose, KwExit})
    /\ file' = [exists |-> TRUE, content |-> data]
    /\ pc' = "terminated"
    /\ op' = "close"
    /\ output' = [msg |-> MsgBye, data |-> <<>>]
    /\ UNCHANGED <<today, data>>

MainHello(p) ==
    /\ Dispatch(p, {KwHello})
    /\ Display("hello", [msg |-> MsgHello, data |-> <<>>], data)

MainAdd(p) ==
    /\ Dispatch(p, {KwAdd})
    /\ LET r == add_contact(p.args, data) IN
       /\ WithinBounds(r.book)
       /\ Display("add", input_error(r), r.book)

MainChange(p) ==
    /\ Dispatch(p, {KwChange})
    /\ LET r == change_contact(p.args, data) IN
       Display("change", input_error(r), r.book)

MainPhone(p) ==
    /\ Dispatch(p, {KwPhone})
    /\ LET r == show_phone(p.args, data) IN
       Display("phone", input_error(r), r.book)

MainAll(p) ==
    /\ Dispatch(p, {KwAll})
    /\ Display("all", show_all(data), data)

MainAddBirthday(p) ==
    /\ Dispatch(p, {KwAddBirthday})
    /\ LET r == add_birthday_cmd(p.args, data, today) IN
       Display("add-birthday", input_error(r), r.book)

MainShowBirthday(p) ==
    /\ Dispatch(p, {KwShowBirthday})
    /\ LET r == show_birthday(p.args, data) IN
       Display("show-birthday", input_error(r), r.book)

MainBirthdays(p) ==
    /\ Dispatch(p, {KwBirthdays})
    /\ LET r == birthdays(data, today) IN
       Display("birthdays", input_error(r), r.book)

Keywords ==
    {KwClose, KwExit, KwHello, KwAdd, KwChange, KwPhone, KwAll, KwAddBirthday,
     KwShowBirthday, KwBirthdays}

MainInvalid(p) ==
    /\ pc = "reading"
    /\ p.ok
    /\ p.cmd \notin Keywords
    /\ Display("invalid", [msg |-> MsgInvalid, data |-> <<>>], data)

(***************************************************************************)
(* The methods no command reaches, called on the book directly             *)
(***************************************************************************)
\* book.find(name).remove_phone(phone)
RemovePhone(name, phone) ==
    /\ pc = "reading"
    /\ find(data, name) # 0
    /\ LET i == find(data, name) IN
       Display("remove_phone", NoOutput,
               WithRecord(data, i, remove_phone(data[i].record, phone)))

\* book.delete(name)
Delete(name) ==
    /\ pc = "reading"
    /\ Display("delete", NoOutput, delete(data, name))

\* book.add_record(Record(name))
AddRecord(name) ==
    /\ pc = "reading"
    /\ Display("add_record", NoOutput, add_record(data, Record(name)))

MsgEntries == "upcoming_birthdays"

\* book.get_upcoming_birthdays(days): the entries, or the exception that escapes
GetUpcomingBirthdays(days) ==
    /\ pc = "reading"
    /\ LET r == get_upcoming_birthdays(data, today, days) IN
       Display("get_upcoming_birthdays",
               IF r.exc = "none"
               THEN [msg |-> MsgEntries, data |-> entries_str(r.entries)]
               ELSE [msg |-> r.text, data |-> <<>>],
               data)

\* a later day begins while the program waits at its prompt
Tick ==
    /\ pc = "reading"
    /\ \E d \in TodayValues :
          /\ toordinal(d) > toordinal(today)
          /\ today' = d
    /\ op' = "tick"
    /\ output' = NoOutput
    /\ UNCHANGED <<pc, data, file>>

Next ==
    \/ \E line \in Lines :
          LET p == parse_input(line) IN
          \/ MainParseError(p)
          \/ MainClose(p)
          \/ MainHello(p)
          \/ MainAdd(p)
          \/ MainChange(p)
          \/ MainPhone(p)
          \/ MainAll(p)
          \/ MainAddBirthday(p)
          \/ MainShowBirthday(p)
          \/ MainBirthdays(p)
          \/ MainInvalid(p)
    \/ \E phone \in {P1, P2} : RemovePhone(Ann, phone)
    \/ RemovePhone(Bob, P1)
    \/ \E name \in {Ann, Bob} : Delete(name) \/ AddRecord(name)
    \/ \E days \in WindowValues : GetUpcomingBirthdays(days)
    \/ Tick

Spec == Init /\ [][Next]_vars

(***************************************************************************)
(* Vocabulary of the properties                                            *)
(***************************************************************************)
\* a string of exactly 10 decimal digits
TenDigits(s) ==
    /\ Len(s) = 10
    /\ \A i \in 1..Len(s) : s[i] \in {"0", "1", "2", "3", "4", "5", "6", "7", "8", "9"}

\* the phone list stored under name in book, <<>> when there is no such record
PhonesOf(book, name) ==
    IF KeyIndex(book, name) = 0 THEN <<>> ELSE book[KeyIndex(book, name)].record.phones

\* the day number of day.month of year y (the day after 28.02 for a 29.02
\* that year y does not have)
OrdinalIn(y, b) == DaysBeforeYear(y) + DaysBeforeMonth(y, b.month) + b.day

\* the day number of the next occurrence of the stored birthday b: this year's
\* when that is today or later, next year's otherwise
OccurrenceOrdinal(b, now) ==
    LET d == strptime(b).date IN
    IF OrdinalIn(now.year, d) >= toordinal(now)
    THEN OrdinalIn(now.year, d)
    ELSE OrdinalIn(now.year + 1, d)

Delta(b, now) == OccurrenceOrdinal(b, now) - toordinal(now)

\* the names of the records of book that have a birthday with delta in 0..days
RECURSIVE DueNames(_, _, _)
DueNames(book, now, days) ==
    IF Len(book) = 0 THEN <<>>
    ELSE LET r == book[1].record
             due == r.birthday # None /\ Delta(r.birthday, now) \in 0..days
         IN (IF due THEN <<r.name>> ELSE <<>>) \o DueNames(Tail(book), now, days)

\* the names in the flat sequence name, date, name, date, ...
EntryNames(flat) == [k \in 1..(Len(flat) \div 2) |-> flat[2 * k - 1]]

\* the message is not the success message of the command
Failed(cmd, msg) ==
    CASE cmd = "add" -> msg \notin {MsgAdded, MsgUpdated}
      [] cmd = "change" -> msg # MsgPhoneUpdated
      [] cmd = "phone" -> msg # MsgPhones
      [] cmd = "add-birthday" -> msg # MsgBirthdayAdded
      [] cmd = "show-birthday" -> msg # MsgBirthday
      [] cmd = "birthdays" -> msg # MsgBirthdays
      [] OTHER -> FALSE

\* the number of arguments the command requires
Required(cmd) ==
    CASE cmd = KwAdd -> 2
      [] cmd = KwChange -> 3
      [] cmd = KwPhone -> 1
      [] cmd = KwAddBirthday -> 2
      [] cmd = KwShowBirthday -> 1
      [] OTHER -> 0

\* the keyword that dispatches to the handler named cmd
KeywordOf(cmd) ==
    CASE cmd = "add" -> KwAdd
      [] cmd = "change" -> KwChange
      [] cmd = "phone" -> KwPhone
      [] cmd = "add-birthday" -> KwAddBirthday
      [] cmd = "show-birthday" -> KwShowBirthday
      [] OTHER -> <<>>

\* what parse_input gives on the lines
ParsedLines == {parse_input(line) : line \in Lines}

\* this step is main() handling the parsed line p with one of the handlers
\* that take arguments
HandlerStep(p) ==
    \/ MainAdd(p)
    \/ MainChange(p)
    \/ MainPhone(p)
    \/ MainAddBirthday(p)
    \/ MainShowBirthday(p)

\* the message the handler must return on the parsed line p when every
\* command with too few arguments is to answer "Not enough argument for the
\* command" and change, phone and add-birthday on an absent contact "Contact
\* not found"; "" where nothing is demanded
StatedMsg(p, book) ==
    IF Len(p.args) < Required(p.cmd) THEN MsgNotEnough
    ELSE IF p.cmd \in {KwChange, KwPhone, KwAddBirthday} /\ KeyIndex(book, p.args[1]) = 0
    THEN MsgContactNotFound
    ELSE ""

\* the same with the handlers' own messages for too few arguments, and with
\* "Contact not found" only where the argument count lets the lookup happen
AmendedMsg(p, book) ==
    CASE p.cmd \in {KwPhone, KwShowBirthday} /\ Len(p.args) = 0 -> MsgNotEnough
      [] p.cmd = KwAdd /\ Len(p.args) < 2 -> MsgAddArgs
      [] p.cmd = KwChange /\ Len(p.args) < 3 -> MsgChangeArgs
      [] p.cmd = KwAddBirthday /\ Len(p.args) < 2 -> MsgBirthdayArgs
      [] /\ \/ p.cmd = KwChange /\ Len(p.args) = 3
            \/ p.cmd = KwPhone /\ Len(p.args) >= 1
            \/ p.cmd = KwAddBirthday /\ Len(p.args) = 2
         /\ KeyIndex(book, p.args[1]) = 0 -> MsgContactNotFound
      [] OTHER -> ""

(***************************************************************************)
(* The properties                                                          *)
(***************************************************************************)

\* C1: get_upcoming_birthdays(days) returns an entry for a record if and only
\* if the record has a birthday and the number of days from today to the next
\* occurrence of its day and month is in 0..days, for every book, every today
\* and every days >= 0.
C1_EntryIffInWindow ==
    [][\A days \in WindowValues :
          GetUpcomingBirthdays(days) =>
              /\ output'.msg = MsgEntries
              /\ EntryNames(output'.data) = DueNames(data, today, days)]_vars

\* C2: the congratulation_date of every entry returned is no Saturday and no
\* Sunday: it is the occurrence of the birthday when that is a Monday to
\* Friday, 2 days later when it is a Saturday and 1 day later when it is a
\* Sunday.
C2_CongratulationOnWeekday ==
    (op \in {"birthdays", "get_upcoming_birthdays"} /\ output.msg \in {MsgBirthdays, MsgEntries})
    => \A k \in 1..(Len(output.data) \div 2) :
          LET name == output.data[2 * k - 1]
              cd == strptime(output.data[2 * k])
              occ == OccurrenceOrdinal(data[KeyIndex(data, name)].record.birthday, today)
              wd == (occ + 6) % 7
          IN /\ KeyIndex(data, name) # 0
             /\ cd.ok
             /\ weekday(cd.date) \notin {5, 6}
             /\ toordinal(cd.date) = occ + (IF wd = 5 THEN 2 ELSE IF wd = 6 THEN 1 ELSE 0)

\* C2 witness: on Monday 10.06.2024 the birthdays command reports Ann, born
\* 15.06.1985, for Monday 17.06.2024.
C2_Witness ==
    /\ op = "birthdays"
    /\ today = MkDate(2024, 6, 10)
    /\ output.msg = MsgBirthdays
    /\ output.data = <<Ann, <<"1", "7", ".", "0", "6", ".", "2", "0", "2", "4">> >>

\* C3: a command that returns an error message instead of its success message
\* leaves the book as it was before the call.
C3_FailedCommandKeepsBook ==
    [][Failed(op', output'.msg) => data' = data]_vars

\* C4: on every line that is not close or exit the loop displays a message and
\* reads the next command; the process ends only on close or exit, after
\* saving the book.
C4_LoopEndsOnlyOnClose ==
    [][pc = "reading" =>
          \/ pc' = "reading"
          \/ /\ pc' = "terminated"
             /\ op' = "close"
             /\ file' = [exists |-> TRUE, content |-> data]]_vars

\* C5: edit_phone(old, new) fails and leaves the phone list unchanged when new
\* is no valid phone (also when old is present) and when new is valid and no
\* entry equals old; otherwise it replaces the first entry equal to old by new
\* and leaves every other entry, the length and the order unchanged.
C5_EditPhoneAtomic ==
    [][op' = "change" =>
          \A p \in ParsedLines :
             LET name == p.args[1]
                 old == p.args[2]
                 new == p.args[3]
                 before == PhonesOf(data, name)
                 after == PhonesOf(data', name)
             IN ( /\ p.cmd = KwChange
                  /\ Len(p.args) = 3
                  /\ KeyIndex(data, name) # 0
                  /\ MainChange(p) ) =>
                  IF ~TenDigits(new)
                  THEN after = before /\ output'.msg = MsgPhoneInvalid
                  ELSE IF \A i \in 1..Len(before) : before[i] # old
                  THEN after = before /\ output'.msg = MsgPhoneNotFound
                  ELSE /\ output'.msg = MsgPhoneUpdated
                       /\ Len(after) = Len(before)
                       /\ \E i \in 1..Len(before) :
                             /\ before[i] = old
                             /\ \A j \in 1..(i - 1) : before[j] # old
                             /\ after[i] = new
                             /\ \A j \in 1..Len(before) : j # i => after[j] = before[j]]_vars

\* C5 witness: a change replaced the first of two equal phones of Ann and kept
\* the second.
C5_Witness ==
    /\ op = "change"
    /\ output.msg = MsgPhoneUpdated
    /\ PhonesOf(data, Ann) = <<P2, P1>>

\* C6: remove_phone(raw) leaves no entry equal to raw and keeps every other
\* entry in its order, also when the list holds raw more than once.
C6_RemovePhoneRemovesAll ==
    [][op' = "remove_phone" =>
          \A name \in {Ann, Bob}, phone \in {P1, P2} :
             RemovePhone(name, phone) =>
                 PhonesOf(data', name)
                     = SelectSeq(PhonesOf(data, name), LAMBDA x : x # phone)]_vars

\* C7, as stated: a command called with fewer arguments than it requires
\* returns "Not enough argument for the command", and change, phone and
\* add-birthday naming a contact that is absent return "Contact not found"
\* (no handler step returns another message than StatedMsg demands).
C7_Original ==
    [][op' \in {"add", "change", "phone", "add-birthday", "show-birthday"} =>
          \A p \in ParsedLines :
             ( /\ p.ok
               /\ p.cmd = KeywordOf(op')
               /\ StatedMsg(p, data) # ""
               /\ output'.msg # StatedMsg(p, data) )
             => ~HandlerStep(p)]_vars

\* C7, amended: phone and show-birthday without an argument return "Not
\* enough argument for the command"; add with fewer than 2, change with fewer
\* than 3 and add-birthday with fewer than 2 arguments return their own
\* "Please provide ..." message; change with exactly 3 arguments, phone with
\* at least 1 and add-birthday with exactly 2, naming a contact that is
\* absent, return "Contact not found" (no handler step returns another
\* message than AmendedMsg demands).
C7_ArgumentErrors ==
    [][op' \in {"add", "change", "phone", "add-birthday", "show-birthday"} =>
          \A p \in ParsedLines :
             ( /\ p.ok
               /\ p.cmd = KeywordOf(op')
               /\ AmendedMsg(p, data) # ""
               /\ output'.msg # AmendedMsg(p, data) )
             => ~HandlerStep(p)]_vars

\* C7 witness: show-birthday was called without an argument while the book
\* holds a record.
C7_Witness ==
    /\ op = "show-birthday"
    /\ output.msg = MsgNotEnough
    /\ Len(data) > 0

\* C8: add with a valid phone creates, for an absent name, a record with
\* exactly that phone and returns "Contact added."; for a present name it
\* returns "Contact updated.", appends the phone and changes nothing else.  No
\* add command, valid or not, removes a stored phone or birthday.
C8_AddCreatesOrAppends ==
    [][op' = "add" =>
          /\ \A i \in 1..Len(data) :
                /\ i <= Len(data')
                /\ data'[i].key = data[i].key
                /\ data'[i].record.birthday = data[i].record.birthday
                /\ Len(data'[i].record.phones) >= Len(data[i].record.phones)
                /\ SubSeq(data'[i].record.phones, 1, Len(data[i].record.phones))
                       = data[i].record.phones
          /\ \A p \in ParsedLines :
                LET name == p.args[1]
                    phone == p.args[2]
                IN ( /\ p.cmd = KwAdd
                     /\ Len(p.args) >= 2
                     /\ TenDigits(phone)
                     /\ MainAdd(p) ) =>
                     IF KeyIndex(data, name) = 0
                     THEN /\ output'.msg = MsgAdded
                          /\ data' = Append(data,
                                 [key |-> name,
                                  record |-> [name |-> name, phones |-> <<phone>>,
                                              birthday |-> None]])
                     ELSE /\ output'.msg = MsgUpdated
                          /\ Len(data') = Len(data)
                          /\ \A i \in 1..Len(data) :
                                IF data[i].key = name
                                THEN data'[i] =
                                       [data[i] EXCEPT !.record.phones = Append(@, phone)]
                                ELSE data'[i] = data[i]]_vars

\* C8 witness: add appended a second phone to Ann, who has a birthday, while
\* Bob's record is in the book too.
C8_Witness ==
    /\ op = "add"
    /\ output.msg = MsgUpdated
    /\ Len(data) = 2
    /\ Len(PhonesOf(data, Ann)) = 2
    /\ data[KeyIndex(data, Ann)].record.birthday # None

\* C9: get_upcoming_birthdays and the birthdays command return a sequence of
\* entries, never an error, for every book the commands can build and every
\* today, also for a stored birthday of 29 February.
C9_NeverAnError ==
    /\ op = "birthdays" => output.msg = MsgBirthdays
    /\ op = "get_upcoming_birthdays" => output.msg = MsgEntries

\* C10: every stored phone is a string of exactly 10 digits, every stored
\* birthday is a date not after today, and every key of the book is the name of
\* the record stored under it.
C10_ValidatedBook ==
    \A i \in 1..Len(data) :
       LET r == data[i].record IN
       /\ data[i].key = r.name
       /\ \A j \in 1..Len(r.phones) : TenDigits(r.phones[j])
       /\ r.birthday # None =>
             /\ strptime(r.birthday).ok
             /\ strftime(strptime(r.birthday).date) = r.birthday
             /\ toordinal(strptime(r.birthday).date) <= toordinal(today)

\* C10 witness: an add-birthday with a date in the future has just failed on a
\* book whose two records hold phones and a birthday.
C10_Witness ==
    /\ op = "add-birthday"
    /\ output.msg = MsgDateFuture
    /\ Len(data) = 2
    /\ \A i \in 1..Len(data) : Len(data[i].record.phones) > 0
    /\ \E i \in 1..Len(data) : data[i].record.birthday # None

====
